---- MODULE Spec2Model ----
(***************************************************************************)
(* Vehicle service: the validated-payload decoder, the in-memory vehicle   *)
(* repository behind one mutex, and the three HTTP handlers, run by        *)
(* concurrent request tasks of one server process.                         *)
(*                                                                         *)
(* Strings are sequences of one-character strings.  A text that is built   *)
(* by formatting (a response message) is a sequence of chunks: a chunk is  *)
(* either the line break "\n" or a literal that holds no line break.       *)
(***************************************************************************)
EXTENDS Integers, Sequences, FiniteSets, Bags, TLC

\* ------------------------------------------------------------------ bounds
\* number of concurrent request tasks
NumTasks == 2
\* number of identifiers Uuid::now_v7() hands out before creates are refused
MaxUuid == 2
\* nested calls of into_response the stack holds before it overflows
StackDepth == 1

\* ------------------------------------------------- constants of the program
MinLen == 3
MaxLen == 25
YearLen == 4

Tasks == 1..NumTasks
NoTask == 0
NoUuid == 0

\* --------------------------------------------------------- values and text
None == [tag |-> "None"]
Some(x) == [tag |-> "Some", val |-> x]

Rep(c, n) == [i \in 1..n |-> c]

Range(s) == {s[i] : i \in DOMAIN s}

Perms(S) == {s \in [1..Cardinality(S) -> S] : Range(s) = S}

HexDigits == <<"0", "1", "2", "3", "4", "5", "6", "7", "8", "9", "a", "b", "c", "d", "e", "f">>

HexVal(ch) == (CHOOSE i \in DOMAIN HexDigits : HexDigits[i] = ch) - 1

\* Uuid::to_string: the lower-case hexadecimal form (two digits here)
UuidToString(u) == <<HexDigits[((u \div 16) % 16) + 1], HexDigits[(u % 16) + 1]>>

\* Path<Uuid>: the client's string parsed back to a Uuid
ParseUuid(s) == HexVal(s[1]) * 16 + HexVal(s[2])

\* mutant: the generator hands out the same identifier again
NowV7Repeat(c) == 1

\* Uuid::now_v7(): time-ordered, unique within the process
NowV7(c) == c + 1

\* --------------------------------------------------------------- Vehicle
NoVehicle == [id |-> None, manufacturer |-> <<>>, model |-> <<>>, year |-> <<>>]

ManufacturerMsg == "manufacturer must be between 3 and 25 characters"
ModelMsg == "model must be between 3 and 25 characters"
YearMsg == "year must be exactly 4 characters"

\* mutant: the minimum is exclusive
LengthInvalidExclusive(s, min, max) == Len(s) <= min \/ Len(s) > max

\* #[validate(length(min, max))]: the character count is outside [min, max]
LengthInvalid(s, min, max) == Len(s) < min \/ Len(s) > max

\* mutant: validation stops at the first violated field
ValidateShortCircuit(v) ==
    IF LengthInvalid(v.manufacturer, MinLen, MaxLen)
    THEN {[field |-> "manufacturer", message |-> ManufacturerMsg]}
    ELSE IF LengthInvalid(v.model, MinLen, MaxLen)
    THEN {[field |-> "model", message |-> ModelMsg]}
    ELSE IF LengthInvalid(v.year, YearLen, YearLen)
    THEN {[field |-> "year", message |-> YearMsg]}
    ELSE {}

\* mutant: nothing is validated
ValidateNothing(v) == {}

\* Vehicle::validate (derived): the errors of every violated field, keyed by field
Validate(v) ==
    {e \in {[field |-> "manufacturer", message |-> ManufacturerMsg]} :
        LengthInvalid(v.manufacturer, MinLen, MaxLen)}
    \cup {e \in {[field |-> "model", message |-> ModelMsg]} :
        LengthInvalid(v.model, MinLen, MaxLen)}
    \cup {e \in {[field |-> "year", message |-> YearMsg]} :
        LengthInvalid(v.year, YearLen, YearLen)}

\* ----------------------------------------------------------- ServerError
NoErr == [kind |-> "none"]
ValidationError(errors) == [kind |-> "ValidationError", errors |-> errors]
AxumJsonRejection == [kind |-> "AxumJsonRejection", diagnostic |-> "Failed to parse the request body as JSON"]

\* Display of ValidationErrors (transparent): one "field: message" entry per
\* field in the order the error map iterates, entries separated by line breaks
DisplayErrors(order) ==
    LET F[i \in 0..Len(order)] ==
            IF i = 0 THEN <<>>
            ELSE F[i - 1] \o (IF i = 1 THEN <<>> ELSE <<"\n">>)
                          \o <<order[i].field, ": ", order[i].message>>
    IN  F[Len(order)]

\* str::replace on a text of chunks
Replace(text, from, to) == [i \in DOMAIN text |-> IF text[i] = from THEN to ELSE text[i]]

\* ServerError::into_response, the ValidationError arm
ValidationMessage(order) ==
    Replace(<<"Input Validation Error: [">> \o DisplayErrors(order) \o <<"]">>, "\n", ",")

\* ValidatedPayload::from_request: deserialize, then validate
FromRequest(body) ==
    IF body.kind = "malformed" THEN [ok |-> FALSE, err |-> AxumJsonRejection, value |-> NoVehicle]
    ELSE IF Validate(body.vehicle) # {}
    THEN [ok |-> FALSE, err |-> ValidationError(Validate(body.vehicle)), value |-> body.vehicle]
    ELSE [ok |-> TRUE, err |-> NoErr, value |-> body.vehicle]

\* ------------------------------------------------------------- responses
NoResponse == [status |-> "none", kind |-> "none"]

\* mutant: the client's id is kept when it sent one
StoredVehicleKeepsClientId(id, vehicle) ==
    [id |-> IF vehicle.id = None THEN Some(UuidToString(id)) ELSE vehicle.id,
     manufacturer |-> vehicle.manufacturer, model |-> vehicle.model, year |-> vehicle.year]

\* mutant: manufacturer and model are swapped
StoredVehicleSwapped(id, vehicle) ==
    [id |-> Some(UuidToString(id)),
     manufacturer |-> vehicle.model, model |-> vehicle.manufacturer, year |-> vehicle.year]

\* the record post_vehicle stores
StoredVehicle(id, vehicle) ==
    [id |-> Some(UuidToString(id)),
     manufacturer |-> vehicle.manufacturer, model |-> vehicle.model, year |-> vehicle.year]

\* mutant: the insert replaces the whole map
MapInsertReplacing(m, k, v) == [x \in {k} |-> v]

\* HashMap::insert
MapInsert(m, k, v) == [x \in DOMAIN m \cup {k} |-> IF x = k THEN v ELSE m[x]]

\* HashMap::get(..).cloned()
MapGet(m, k) == IF k \in DOMAIN m THEN Some(m[k]) ELSE None

\* mutant: a missing vehicle is answered with an empty success
GetVehicleResponseDefault(found) ==
    IF found.tag = "Some"
    THEN [status |-> "OK", kind |-> "Vehicle", vehicle |-> found.val]
    ELSE [status |-> "OK", kind |-> "Vehicle", vehicle |-> NoVehicle]

\* handler get_vehicle: Some -> Json, None -> NOT_FOUND
GetVehicleResponse(found) ==
    IF found.tag = "Some"
    THEN [status |-> "OK", kind |-> "Vehicle", vehicle |-> found.val]
    ELSE [status |-> "NOT_FOUND", kind |-> "empty"]

\* -------------------------------------------------------- request inputs
StringsOf(c, lens) == {Rep(c, n) : n \in lens}

FieldLens == {MinLen - 1, MinLen, MaxLen, MaxLen + 1}
YearLens == {YearLen - 1, YearLen, YearLen + 1}

JsonBody(v) == [kind |-> "json", vehicle |-> v]
MalformedBody == [kind |-> "malformed", vehicle |-> NoVehicle]

\* bodies of the decoder's specification: every boundary length of every field
AllBodies ==
    {MalformedBody} \cup
    {JsonBody(v) : v \in [id : {None, Some(<<"x">>)},
                          manufacturer : StringsOf("a", FieldLens),
                          model : StringsOf("m", FieldLens),
                          year : StringsOf("1", YearLens) \cup StringsOf("y", YearLens)]}

\* a vehicle body with fields of the given lengths
VehicleBody(clientId, c, manufacturerLen) ==
    JsonBody([id |-> clientId, manufacturer |-> Rep(c, manufacturerLen),
              model |-> Rep("m", MinLen), year |-> Rep("1", YearLen)])

\* bodies of the concurrent specification: malformed, invalid, and two valid
\* ones that differ in every way a stored record can show
Bodies ==
    {MalformedBody,
     VehicleBody(None, "a", MinLen - 1),
     VehicleBody(None, "a", MinLen),
     VehicleBody(Some(UuidToString(MaxUuid)), "b", MaxLen)}

\* ids a client may ask for: every id the server can generate and one it cannot
UuidInputs == 1..(MaxUuid + 1)

\* ------------------------------------------------------------------ state
VARIABLES alive, map, lock, clock, pc, payload, id, err, depth, res, returned

vars == <<alive, map, lock, clock, pc, payload, id, err, depth, res, returned>>

\* main: InMemoryVehicleRepo::default(), no request in flight
Init ==
    /\ alive = TRUE
    /\ map = [k \in {} |-> NoVehicle]
    /\ lock = NoTask
    /\ clock = 0
    /\ pc = [t \in Tasks |-> "idle"]
    /\ payload = [t \in Tasks |-> NoVehicle]
    /\ id = [t \in Tasks |-> NoUuid]
    /\ err = [t \in Tasks |-> NoErr]
    /\ depth = [t \in Tasks |-> 0]
    /\ res = [t \in Tasks |-> NoResponse]
    /\ returned = EmptyBag

\* mutant: the lock is handed out while it is held
MutexAvailableAlways == TRUE

\* Mutex: unlocked
MutexAvailable == lock = NoTask

\* creates accepted and not yet given an identifier
PendingCreates == Cardinality({t \in Tasks : pc[t] = "post_gen"})

\* POST /api/v1/vehicles: the extractor ValidatedPayload runs before the handler
PostRequest(t, B) ==
    /\ alive /\ pc[t] = "idle"
    /\ \E body \in B :
        LET r == FromRequest(body) IN
        /\ r.ok => clock + PendingCreates < MaxUuid
        /\ payload' = [payload EXCEPT ![t] = r.value]
        /\ err' = [err EXCEPT ![t] = r.err]
        /\ pc' = [pc EXCEPT ![t] = IF r.ok THEN "post_gen" ELSE "into_response"]
    /\ UNCHANGED <<alive, map, lock, clock, id, depth, res, returned>>

\* ServerError::into_response, ValidationError arm: 400 with the joined message
IntoResponseValidation(t) ==
    /\ alive /\ pc[t] = "into_response" /\ err[t].kind = "ValidationError"
    /\ \E order \in Perms(err[t].errors) :
        res' = [res EXCEPT ![t] = [status |-> "BAD_REQUEST", kind |-> "text",
                                   text |-> ValidationMessage(order)]]
    /\ pc' = [pc EXCEPT ![t] = "respond"]
    /\ UNCHANGED <<alive, map, lock, clock, payload, id, err, depth, returned>>

\* ServerError::into_response, the other arm: it calls into_response on self again
IntoResponseOther(t) ==
    /\ alive /\ pc[t] = "into_response" /\ err[t].kind # "ValidationError"
    /\ depth[t] < StackDepth
    /\ depth' = [depth EXCEPT ![t] = depth[t] + 1]
    /\ UNCHANGED <<alive, map, lock, clock, pc, payload, id, err, res, returned>>

\* the recursion exhausts the stack: the process aborts
StackOverflow(t) ==
    /\ alive /\ pc[t] = "into_response" /\ err[t].kind # "ValidationError"
    /\ depth[t] = StackDepth
    /\ alive' = FALSE
    /\ pc' = [pc EXCEPT ![t] = "overflow"]
    /\ UNCHANGED <<map, lock, clock, payload, id, err, depth, res, returned>>

\* post_vehicle: let id = Uuid::now_v7()
PostGen(t) ==
    /\ alive /\ pc[t] = "post_gen"
    /\ id' = [id EXCEPT ![t] = NowV7(clock)]
    /\ clock' = clock + 1
    /\ pc' = [pc EXCEPT ![t] = "post_lock"]
    /\ UNCHANGED <<alive, map, lock, payload, err, depth, res, returned>>

\* self.map.lock().unwrap()
MutexLock(t) ==
    /\ alive /\ pc[t] \in {"post_lock", "get_lock", "all_lock"}
    /\ MutexAvailable
    /\ lock' = t
    /\ pc' = [pc EXCEPT ![t] = CASE pc[t] = "post_lock" -> "post_insert"
                                 [] pc[t] = "get_lock" -> "get_read"
                                 [] OTHER -> "all_read"]
    /\ UNCHANGED <<alive, map, clock, payload, id, err, depth, res, returned>>

\* post_vehicle: insert under the lock; the guard is dropped with the statement
PostInsert(t) ==
    /\ alive /\ pc[t] = "post_insert"
    /\ map' = MapInsert(map, id[t], StoredVehicle(id[t], payload[t]))
    /\ lock' = NoTask
    /\ pc' = [pc EXCEPT ![t] = "post_ret"]
    /\ UNCHANGED <<alive, clock, payload, id, err, depth, res, returned>>

\* post_vehicle returns Some(VehicleId); the handler unwraps and answers
PostReturn(t) ==
    /\ alive /\ pc[t] = "post_ret"
    /\ res' = [res EXCEPT ![t] = [status |-> "OK", kind |-> "VehicleId", id |-> UuidToString(id[t])]]
    /\ returned' = returned (+) SetToBag({[id |-> UuidToString(id[t]), vehicle |-> payload[t]]})
    /\ pc' = [pc EXCEPT ![t] = "respond"]
    /\ UNCHANGED <<alive, map, lock, clock, payload, id, err, depth>>

\* GET /api/v1/vehicles/{id}
GetRequest(t) ==
    /\ alive /\ pc[t] = "idle"
    /\ \E s \in {UuidToString(u) : u \in UuidInputs} : id' = [id EXCEPT ![t] = ParseUuid(s)]
    /\ pc' = [pc EXCEPT ![t] = "get_lock"]
    /\ UNCHANGED <<alive, map, lock, clock, payload, err, depth, res, returned>>

\* get_vehicle: get(&id).cloned() under the lock, mapped by the handler
GetRead(t) ==
    /\ alive /\ pc[t] = "get_read"
    /\ res' = [res EXCEPT ![t] = GetVehicleResponse(MapGet(map, id[t]))]
    /\ lock' = NoTask
    /\ pc' = [pc EXCEPT ![t] = "respond"]
    /\ UNCHANGED <<alive, map, clock, payload, id, err, depth, returned>>

\* GET /api/v1/vehicles
AllRequest(t) ==
    /\ alive /\ pc[t] = "idle"
    /\ pc' = [pc EXCEPT ![t] = "all_lock"]
    /\ UNCHANGED <<alive, map, lock, clock, payload, id, err, depth, res, returned>>

\* get_vehicles: values().cloned().collect() under the lock, in the map's order
AllRead(t) ==
    /\ alive /\ pc[t] = "all_read"
    /\ \E order \in Perms(DOMAIN map) :
        res' = [res EXCEPT ![t] = [status |-> "OK", kind |-> "Vehicles",
                                   vehicles |-> [i \in DOMAIN order |-> map[order[i]]]]]
    /\ lock' = NoTask
    /\ pc' = [pc EXCEPT ![t] = "respond"]
    /\ UNCHANGED <<alive, map, clock, payload, id, err, depth, returned>>

\* the response is written and the task takes the next request
Respond(t) ==
    /\ alive /\ pc[t] = "respond"
    /\ pc' = [pc EXCEPT ![t] = "idle"]
    /\ payload' = [payload EXCEPT ![t] = NoVehicle]
    /\ id' = [id EXCEPT ![t] = NoUuid]
    /\ err' = [err EXCEPT ![t] = NoErr]
    /\ res' = [res EXCEPT ![t] = NoResponse]
    /\ UNCHANGED <<alive, map, lock, clock, depth, returned>>

Step(t, B) ==
    \/ PostRequest(t, B)
    \/ IntoResponseValidation(t)
    \/ IntoResponseOther(t)
    \/ StackOverflow(t)
    \/ PostGen(t)
    \/ MutexLock(t)
    \/ PostInsert(t)
    \/ PostReturn(t)
    \/ GetRequest(t)
    \/ GetRead(t)
    \/ AllRequest(t)
    \/ AllRead(t)
    \/ Respond(t)

\* the server: every task serves requests concurrently
Next == \E t \in Tasks : Step(t, Bodies)

Spec == Init /\ [][Next]_vars

\* the decoder in isolation: one task, every boundary input
NextDecode == Step(1, AllBodies)

SpecDecode == Init /\ [][NextDecode]_vars

\* ------------------------------------------------------------ properties
PostPcs == {"post_gen", "post_lock", "post_insert", "post_ret"}

Returned == BagToSet(returned)

ReturnedUuids == {ParseUuid(r.id) : r \in Returned}

SameFields(stored, sent) ==
    /\ stored.manufacturer = sent.manufacturer
    /\ stored.model = sent.model
    /\ stored.year = sent.year

\* task t completes the repository read of get_vehicle in this step
GetReadStep(t) == pc[t] = "get_read" /\ pc'[t] = "respond"

\* C1: a get_vehicle for the id a create returned, read at any later point,
\* answers with the vehicle whose manufacturer, model and year are those sent
\* to that create and whose id is the returned id.
C1_RoundTrip ==
    [][\A t \in Tasks : GetReadStep(t) =>
        \A r \in Returned : ParseUuid(r.id) = id[t] =>
            /\ res'[t].status = "OK"
            /\ res'[t].kind = "Vehicle"
            /\ SameFields(res'[t].vehicle, r.vehicle)
            /\ res'[t].vehicle.id = Some(r.id)]_vars

C1_Witness ==
    \E t \in Tasks :
        /\ pc[t] = "respond" /\ res[t].kind = "Vehicle"
        /\ id[t] \in ReturnedUuids
        /\ BagCardinality(returned) >= 2
        /\ \E u \in DOMAIN map : u > id[t]

\* C2: the identifiers creates returned are pairwise distinct, the map holds
\* one record per create that has inserted (N records for N finished creates),
\* and every returned id leads to a record with the fields of its own create,
\* for sequential and interleaved creates, identical payloads or not.
C2_NoLostCreates ==
    /\ \A r \in Returned : CopiesIn(r, returned) = 1
    /\ \A r1, r2 \in Returned : r1.id = r2.id => r1 = r2
    /\ Cardinality(DOMAIN map)
         = BagCardinality(returned) + Cardinality({t \in Tasks : pc[t] = "post_ret"})
    /\ \A r \in Returned :
        /\ ParseUuid(r.id) \in DOMAIN map
        /\ SameFields(map[ParseUuid(r.id)], r.vehicle)

C2_Witness ==
    \E t1, t2 \in Tasks :
        /\ pc[t1] = "post_ret" /\ pc[t2] = "respond" /\ res[t2].kind = "VehicleId"
        /\ payload[t1] = payload[t2]
        /\ id[t1] < id[t2]
        /\ BagCardinality(returned) = 1
        /\ Cardinality(DOMAIN map) = 2

\* C3: a body that does not deserialize is answered by a 400 response that
\* carries the parser's diagnostic; converting the rejection never ends in a
\* fault of the process.
C3_MalformedIsRejected ==
    /\ alive
    /\ \A t \in Tasks : (err[t].kind = "AxumJsonRejection" /\ pc[t] = "respond") =>
        res[t].status = "BAD_REQUEST"

\* C4: validation passes exactly when manufacturer and model have 3 to 25
\* characters and year has 4, whatever the characters, the id sent or the
\* records the repository holds.
C4_ValidationBoundary ==
    \A t \in Tasks : payload[t] # NoVehicle =>
        ((err[t] = NoErr) <=>
            /\ Len(payload[t].manufacturer) \in 3..25
            /\ Len(payload[t].model) \in 3..25
            /\ Len(payload[t].year) = 4)

C4_Witness ==
    \E t \in Tasks :
        /\ pc[t] = "post_gen" /\ err[t] = NoErr
        /\ payload[t].id # None
        /\ Len(payload[t].manufacturer) = 25
        /\ Len(payload[t].model) = 3
        /\ payload[t].year = <<"y", "y", "y", "y">>
        /\ DOMAIN map # {}

ViolatedFields(v) ==
    {f \in {"manufacturer"} : ~(Len(v.manufacturer) \in 3..25)}
    \cup {f \in {"model"} : ~(Len(v.model) \in 3..25)}
    \cup {f \in {"year"} : Len(v.year) # 4}

\* C5: the one validation failure reports exactly the violated fields, and
\* the 400 message built from it has no line break and names each of them.
C5_MultiFieldReporting ==
    \A t \in Tasks : err[t].kind = "ValidationError" =>
        /\ {e.field : e \in err[t].errors} = ViolatedFields(payload[t])
        /\ pc[t] = "respond" =>
            /\ res[t].status = "BAD_REQUEST"
            /\ "\n" \notin Range(res[t].text)
            /\ \A f \in ViolatedFields(payload[t]) : f \in Range(res[t].text)

C5_Witness ==
    \E t \in Tasks :
        /\ pc[t] = "respond" /\ err[t].kind = "ValidationError"
        /\ Len(payload[t].manufacturer) = 2 /\ Len(payload[t].year) = 5
        /\ Len(payload[t].model) = 3
        /\ "manufacturer" \in Range(res[t].text) /\ "year" \in Range(res[t].text)
        /\ "," \in Range(res[t].text)

\* C6: every stored vehicle's id is present, non-empty and the string form of
\* its key, a key the server generated; the id a client sent plays no part.
C6_StoredId ==
    /\ \A k \in DOMAIN map :
        /\ map[k].id = Some(UuidToString(k))
        /\ Len(UuidToString(k)) > 0
        /\ k \in 1..clock
    /\ \A r \in Returned : map[ParseUuid(r.id)].id = Some(r.id)

C6_Witness ==
    \E r \in Returned :
        /\ r.vehicle.id # None
        /\ r.vehicle.id # Some(r.id)
        /\ map[ParseUuid(r.id)].id = Some(r.id)

\* C7 as stated: get_vehicle for an id no create has returned yet answers 404.
C7_AbsentUntilReturned ==
    [][\A t \in Tasks : (GetReadStep(t) /\ id[t] \notin ReturnedUuids) =>
        res'[t].status = "NOT_FOUND"]_vars

\* C7: get_vehicle for an id no create has inserted, so for every id no
\* create has generated, answers 404 NOT_FOUND and no record.
C7_Absence ==
    [][\A t \in Tasks : (GetReadStep(t) /\ (id[t] \notin DOMAIN map \/ id[t] > clock)) =>
        /\ res'[t].status = "NOT_FOUND"
        /\ res'[t].kind = "empty"]_vars

C7_Witness ==
    \E t \in Tasks :
        /\ pc[t] = "respond" /\ res[t].status = "NOT_FOUND"
        /\ id[t] > clock
        /\ DOMAIN map # {}

\* C8: a stored record stays, unchanged, under its id; the two reads leave
\* the map as it is and a create adds exactly one key.
C8_RecordsPermanent ==
    [][/\ \A k \in DOMAIN map : k \in DOMAIN map' /\ map'[k] = map[k]
       /\ \A t \in Tasks :
            (pc[t] \in {"get_read", "all_read"} /\ pc'[t] = "respond") => map' = map
       /\ \A t \in Tasks :
            (pc[t] = "post_insert" /\ pc'[t] = "post_ret") =>
                Cardinality(DOMAIN map' \ DOMAIN map) = 1]_vars

C8_Witness ==
    /\ Cardinality(DOMAIN map) = MaxUuid
    /\ \E t \in Tasks :
        /\ pc[t] = "respond" /\ res[t].kind = "Vehicles"
        /\ Len(res[t].vehicles) >= 1
        /\ Len(res[t].vehicles) < Cardinality(DOMAIN map)

\* C9 as stated: records enter the map in the order their ids were generated.
C9_InsertedInGenerationOrder ==
    [][\A k \in DOMAIN map' \ DOMAIN map : \A j \in DOMAIN map : j < k]_vars

\* C9: the lock is held exactly while a task is inside one of the three map
\* statements, by one task at a time, and never while an id is generated.
C9_LockCoversMapAccessOnly ==
    /\ \A t \in Tasks : (lock = t) <=> pc[t] \in {"post_insert", "get_read", "all_read"}
    /\ \A t \in Tasks : pc[t] = "post_gen" => lock # t

C9_Witness ==
    \E t1, t2 \in Tasks :
        /\ pc[t1] = "post_insert" /\ lock = t1
        /\ pc[t2] = "post_lock"
        /\ id[t2] < id[t1]

ValidLengths(v) ==
    /\ Len(v.manufacturer) \in 3..25
    /\ Len(v.model) \in 3..25
    /\ Len(v.year) = 4

\* task t takes a step of a request the decoder rejected
RejectStep(t) ==
    /\ err'[t] # NoErr \/ err[t] # NoErr
    /\ pc'[t] # pc[t] \/ depth'[t] # depth[t]

\* C10: the repository's create runs only for a body that deserialized and
\* validated; a rejected request never touches the map, and every stored
\* vehicle has manufacturer and model of 3 to 25 characters and a year of 4.
C10_OnlyValidatedStored ==
    /\ [](/\ \A k \in DOMAIN map : ValidLengths(map[k])
          /\ \A t \in Tasks : pc[t] \in PostPcs => (err[t] = NoErr /\ ValidLengths(payload[t]))
          /\ \A t \in Tasks : err[t] # NoErr => (id[t] = NoUuid /\ pc[t] \notin PostPcs))
    /\ [][\A t \in Tasks : RejectStep(t) => map' = map]_vars

C10_Witness ==
    /\ DOMAIN map # {}
    /\ \E t \in Tasks :
        /\ pc[t] = "respond" /\ err[t].kind = "ValidationError"
        /\ res[t].status = "BAD_REQUEST"
        /\ Len(payload[t].model) = 26

====
